---------------------------- MODULE Spec2Model ----------------------------
(***************************************************************************)
(* A model of the ESP32-S3 MCP server (esp32-s3-mcp-idf): the TCP          *)
(* connection loop and line framer (handle_mcp_connection), the JSON-RPC   *)
(* dispatcher (handle_mcp_request and the tool handlers), the FreeRTOS     *)
(* LED command queue, and the LED task (led_control_task).                 *)
(*                                                                         *)
(* Stream symbols.  The byte stream is modelled over a small alphabet:     *)
(* LF (the '\n' delimiter), NUL (a zero byte), X (a byte that starts no    *)
(* JSON value) and J(doc), which stands for the text of one complete JSON  *)
(* value.  Buffer capacities count symbols.                                *)
(*                                                                         *)
(* Numbers.  A JSON number is kept as twice its value (field h), so that   *)
(* halves such as 1.5 are representable: JNum(3) is 1.5, JNum(300) is 150. *)
(***************************************************************************)
EXTENDS Integers, Sequences, FiniteSets, TLC

(***************************************************************************)
(* Program constants and model bounds                                      *)
(***************************************************************************)
\* xQueueCreate(8, sizeof(led_command_t))
QUEUE_LENGTH == 8

\* sizeof(rx_buffer) = sizeof(pending_data) = MCP_BUFFER_SIZE, 4096 in the
\* source; scaled down here, capacities count stream symbols.
MCP_BUFFER_SIZE == 4

\* Connections accepted in one run.
MaxConns == 2

\* Stream symbols received in one run, per specification.
MaxBytesSys == 8
MaxBytesQueue == 16
MaxBytesFrame == 4
MaxBytesDispatch == 2
MaxBytesSession == 6

Min(a, b) == IF a < b THEN a ELSE b
Max(a, b) == IF a > b THEN a ELSE b
Last(s) == s[Len(s)]

(***************************************************************************)
(* cJSON items                                                             *)
(***************************************************************************)
\* cJSON_GetObjectItem returned NULL
JAbsent == [t |-> "absent"]
JNull == [t |-> "null"]
JTrue == [t |-> "true"]
JFalse == [t |-> "false"]
JStr(s) == [t |-> "string", s |-> s]
\* h is twice the number's value
JNum(h) == [t |-> "number", h |-> h]

cJSON_IsString(item) == item.t = "string"
cJSON_IsNumber(item) == item.t = "number"
cJSON_IsNull(item) == item.t = "null"
cJSON_IsBool(item) == item.t \in {"true", "false"}
cJSON_IsTrue(item) == item.t = "true"

\* (int)d of a double given as twice its value: truncation toward zero
Trunc(h) == IF h >= 0 THEN h \div 2 ELSE -((-h) \div 2)

\* the valueint member: (int)valuedouble for a number (the numbers of the
\* model are far inside the int range, where cJSON does not saturate), 1 for
\* true, and 0 (the zeroed item) for every other type
valueint(item) ==
    IF item.t = "number" THEN Trunc(item.h)
    ELSE IF item.t = "true" THEN 1 ELSE 0

(***************************************************************************)
(* Stream symbols and C strings                                            *)
(***************************************************************************)
LF == [k |-> "lf"]
NUL == [k |-> "nul"]
X == [k |-> "x"]
J(doc) == [k |-> "json", doc |-> doc]

\* strlen: the number of symbols before the first NUL
strlen(s) ==
    IF \E i \in 1..Len(s) : s[i] = NUL
    THEN (CHOOSE i \in 1..Len(s) : s[i] = NUL /\ \A j \in 1..(i - 1) : s[j] # NUL) - 1
    ELSE Len(s)

\* the C string held in a buffer
CStr(s) == SubSeq(s, 1, strlen(s))

\* strncat(dest, src, n): at most n symbols of the C string src are appended
strncat_without_limit(dest, src, n) == dest \o CStr(src)
strncat(dest, src, n) == dest \o SubSeq(CStr(src), 1, Min(n, strlen(src)))

\* strchr(p + from, '\n'): the offset of the first LF at or after offset
\* `from` of the C string p, or -1 for NULL
strchr_lf(p, from) ==
    IF \E i \in (from + 1)..Len(p) : p[i] = LF
    THEN (CHOOSE i \in (from + 1)..Len(p) :
              p[i] = LF /\ \A j \in (from + 1)..(i - 1) : p[j] # LF) - 1
    ELSE -1

\* cJSON_Parse(request): the first value of the text is parsed and what
\* follows it is ignored (cJSON_Parse does not require null termination of
\* the value); a text that does not start with a value gives NULL
ParseFail == [t |-> "NULL"]
cJSON_Parse(request) ==
    IF Len(request) > 0 /\ request[1].k = "json" THEN request[1].doc ELSE ParseFail

(***************************************************************************)
(* LED commands (led_command_t)                                            *)
(***************************************************************************)
LedCmd(type, r, g, b, brightness) ==
    [type |-> type, r |-> r, g |-> g, b |-> b, brightness |-> brightness]
NoCmd == [type |-> "none"]

(***************************************************************************)
(* Requests: the parsed JSON document of a message                         *)
(***************************************************************************)
\* A member that is absent is JAbsent.  params and arguments are objects or
\* absent (cJSON_GetObjectItem finds no member in a non-object, so a
\* non-object behaves as an empty object).
Req(id, method, params) == [id |-> id, method |-> method, params |-> params]
Params(name, arguments) == [t |-> "object", name |-> name, arguments |-> arguments]
Args(color, r, g, b, brightness, a, detailed) ==
    [t |-> "object", color |-> color, r |-> r, g |-> g, b |-> b,
     brightness |-> brightness, a |-> a, detailed |-> detailed]
LedArgs(color, r, g, b, brightness) ==
    Args(color, r, g, b, brightness, JAbsent, JAbsent)
NumArgs(a, b) == Args(JAbsent, JAbsent, JAbsent, b, JAbsent, a, JAbsent)
WifiArgs(detailed) ==
    Args(JAbsent, JAbsent, JAbsent, JAbsent, JAbsent, JAbsent, detailed)

(***************************************************************************)
(* Handler results                                                         *)
(***************************************************************************)
\* What a handler leaves behind: its return value (-1, or strlen(response),
\* which is positive for every text the handlers write; 1 stands for it),
\* the text written to the result buffer, and the command it hands to
\* xQueueSend (NoCmd when it sends none).
ErrorBody(code, message) == [code |-> code, message |-> message]
TextBody(text, args) == [text |-> text, args |-> args]
FailureReturningLength(code, message) ==
    [ret |-> 1, body |-> ErrorBody(code, message), cmd |-> NoCmd]
Failure(code, message) ==
    [ret |-> -1, body |-> ErrorBody(code, message), cmd |-> NoCmd]
Success(body, cmd) == [ret |-> 1, body |-> body, cmd |-> cmd]

handle_initialize_with_led ==
    [ret |-> 1,
     body |-> [protocolVersion |-> "2024-11-05", listChanged |-> FALSE,
               name |-> "esp32-s3-mcp", version |-> "0.1.0"],
     cmd |-> LedCmd("LED_CMD_SET_COLOR", 0, 255, 0, 20)]
handle_initialize ==
    Success([protocolVersion |-> "2024-11-05", listChanged |-> FALSE,
             name |-> "esp32-s3-mcp", version |-> "0.1.0"], NoCmd)

ToolNamesShort == <<"wifi_status", "led_control", "compute_add">>
ToolNames == <<"wifi_status", "led_control", "compute_add", "compute_multiply">>

handle_tools_list == Success([tools |-> ToolNames], NoCmd)

handle_wifi_status(arguments) ==
    LET detailed == IF arguments # JAbsent /\ cJSON_IsBool(arguments.detailed)
                    THEN cJSON_IsTrue(arguments.detailed)
                    ELSE FALSE
    IN  IF detailed
        THEN Success(TextBody("WiFi Status (Detailed)", <<>>), NoCmd)
        ELSE Success(TextBody("WiFi Status", <<>>), NoCmd)

\* (uint8_t)d for a double d given as twice its value.  The conversion is
\* defined when the truncated value is in 0..255; outside that range C
\* leaves it undefined, and a build either wraps the integer part modulo 256
\* or saturates it.
uint8_cast(h) ==
    IF Trunc(h) \in 0..255
    THEN {Trunc(h)}
    ELSE {Trunc(h) % 256, IF h < 0 THEN 0 ELSE 255}

\* fmin(100, fmax(0, d)), as twice the value
clamp_brightness_no_upper(h) == Max(0, h)
clamp_brightness(h) == Min(200, Max(0, h))

PredefinedColorsMixedUp ==
    [red |-> <<255, 0, 0>>, green |-> <<0, 255, 0>>, blue |-> <<0, 0, 255>>,
     yellow |-> <<255, 255, 0>>, magenta |-> <<0, 255, 255>>,
     cyan |-> <<255, 0, 255>>, white |-> <<255, 255, 255>>]
PredefinedColors ==
    [red |-> <<255, 0, 0>>, green |-> <<0, 255, 0>>, blue |-> <<0, 0, 255>>,
     yellow |-> <<255, 255, 0>>, magenta |-> <<255, 0, 255>>,
     cyan |-> <<0, 255, 255>>, white |-> <<255, 255, 255>>]

\* the r, g or b local after the parse of its member: unchanged when the
\* member is absent or no number
component(item, default) ==
    IF item # JAbsent /\ cJSON_IsNumber(item) THEN uint8_cast(item.h) ELSE {default}

\* the brightness local after the parse of the brightness member
parse_brightness(item) ==
    IF item # JAbsent /\ cJSON_IsNumber(item)
    THEN Trunc(clamp_brightness(item.h))
    ELSE 20

\* led_command_t led_cmd = {0}; led_cmd.type = LED_CMD_OFF;
OffCommandAsBlack == LedCmd("LED_CMD_SET_COLOR", 0, 0, 0, 0)
OffCommand == LedCmd("LED_CMD_OFF", 0, 0, 0, 0)

\* The set of results handle_led_control can leave (more than one only where
\* a conversion is undefined).
handle_led_control(arguments) ==
    IF arguments = JAbsent
    THEN {Failure(-32602, "LED control requires arguments")}
    ELSE
    LET color == arguments.color
        named == color # JAbsent /\ cJSON_IsString(color)
    IN  IF named /\ color.s = "off"
        THEN {Success(TextBody("LED turned off", <<>>), OffCommand)}
        ELSE
        LET color_set == named /\ color.s \in DOMAIN PredefinedColors
            rs == IF color_set THEN {PredefinedColors[color.s][1]}
                  ELSE component(arguments.r, 255)
            gs == IF color_set THEN {PredefinedColors[color.s][2]}
                  ELSE component(arguments.g, 255)
            bs == IF color_set THEN {PredefinedColors[color.s][3]}
                  ELSE component(arguments.b, 255)
            brightness == parse_brightness(arguments.brightness)
        IN  { Success(TextBody("LED set to RGB(%d, %d, %d) with %d%% brightness",
                               <<r, g, b, brightness>>),
                      LedCmd("LED_CMD_SET_COLOR", r, g, b, brightness))
              : <<r, g, b>> \in rs \X gs \X bs }

\* "%.2f" of a double given as twice its value, in hundredths
Fmt2(h) == h * 50

handle_compute_add(arguments) ==
    IF arguments = JAbsent
    THEN Failure(-32602, "Addition requires arguments")
    ELSE IF \/ arguments.a = JAbsent \/ ~cJSON_IsNumber(arguments.a)
            \/ arguments.b = JAbsent \/ ~cJSON_IsNumber(arguments.b)
    THEN Failure(-32602, "Both 'a' and 'b' parameters required")
    ELSE Success(TextBody("%.2f + %.2f = %.2f",
                          <<Fmt2(arguments.a.h), Fmt2(arguments.b.h),
                            Fmt2(arguments.a.h + arguments.b.h)>>), NoCmd)

handle_compute_multiply_sum(arguments) ==
    IF arguments = JAbsent
    THEN Failure(-32602, "Multiplication requires arguments")
    ELSE IF \/ arguments.a = JAbsent \/ ~cJSON_IsNumber(arguments.a)
            \/ arguments.b = JAbsent \/ ~cJSON_IsNumber(arguments.b)
    THEN Failure(-32602, "Both 'a' and 'b' parameters required")
    ELSE Success(TextBody("%.2f x %.2f = %.2f",
                          <<Fmt2(arguments.a.h), Fmt2(arguments.b.h),
                            Fmt2(arguments.a.h + arguments.b.h)>>), NoCmd)

handle_compute_multiply(arguments) ==
    IF arguments = JAbsent
    THEN Failure(-32602, "Multiplication requires arguments")
    ELSE IF \/ arguments.a = JAbsent \/ ~cJSON_IsNumber(arguments.a)
            \/ arguments.b = JAbsent \/ ~cJSON_IsNumber(arguments.b)
    THEN Failure(-32602, "Both 'a' and 'b' parameters required")
    ELSE Success(TextBody("%.2f x %.2f = %.2f",
                          <<Fmt2(arguments.a.h), Fmt2(arguments.b.h),
                            arguments.a.h * arguments.b.h * 25>>), NoCmd)

\* the default branch of handle_tools_call
ToolNotFoundInvalidParams == Failure(-32602, "Tool not found")
ToolNotFound == Failure(-32601, "Tool not found")

handle_tools_call(params) ==
    IF params = JAbsent
    THEN {Failure(-32602, "Invalid params")}
    ELSE IF params.name = JAbsent \/ ~cJSON_IsString(params.name)
    THEN {Failure(-32602, "Missing tool name")}
    ELSE IF params.name.s = "wifi_status"
    THEN {handle_wifi_status(params.arguments)}
    ELSE IF params.name.s = "led_control"
    THEN handle_led_control(params.arguments)
    ELSE IF params.name.s = "compute_add"
    THEN {handle_compute_add(params.arguments)}
    ELSE IF params.name.s = "compute_multiply"
    THEN {handle_compute_multiply(params.arguments)}
    ELSE {ToolNotFound}

\* The JSON-RPC envelope written to `response`.  The id is printed with %d
\* from id->valueint, so on the wire it is always an integer number.
Envelope(id, kind, body) == [id |-> id, kind |-> kind, body |-> body]
NoResponse == [kind |-> "none"]

\* What handle_mcp_request(request, ...) leaves: its return value len
\* (strlen(response): 0, or positive, for which 1 stands: one symbol of the
\* wire), the response text, and the command handed to xQueueSend on the
\* way.  A set, as for handle_led_control.
Outcome(len, response, cmd) == [len |-> len, response |-> response, cmd |-> cmd]

\* if (id == NULL || cJSON_IsNull(id)): the message is a notification
is_notification_no_null(json) == json.id = JAbsent
is_notification_never(json) == FALSE
is_notification(json) == json.id = JAbsent \/ cJSON_IsNull(json.id)

\* if (method == NULL || !cJSON_IsString(method)) return 0;
InvalidRequestOutcomeError ==
    Outcome(1, Envelope(JNull, "error", ErrorBody(-32600, "Invalid Request")), NoCmd)
InvalidRequestOutcome == Outcome(0, NoResponse, NoCmd)

\* the else branch of the method dispatch
MethodNotFoundInvalidParams == Failure(-32602, "Method not found")
MethodNotFound == Failure(-32601, "Method not found")

handle_mcp_request(request) ==
    LET json == cJSON_Parse(request)
    IN  IF json = ParseFail
        THEN {Outcome(1, Envelope(JNull, "error", ErrorBody(-32700, "Parse error")),
                      NoCmd)}
        ELSE IF json.method = JAbsent \/ ~cJSON_IsString(json.method)
        THEN {InvalidRequestOutcome}
        ELSE IF is_notification(json)
        THEN {Outcome(0, NoResponse, NoCmd)}
        ELSE
        LET results ==
                IF json.method.s = "initialize" THEN {handle_initialize}
                ELSE IF json.method.s = "tools/list" THEN {handle_tools_list}
                ELSE IF json.method.s = "tools/call" THEN handle_tools_call(json.params)
                ELSE {MethodNotFound}
        IN  { Outcome(1,
                      Envelope(JNum(2 * valueint(json.id)),
                               IF res.ret > 0 THEN "result" ELSE "error",
                               res.body),
                      res.cmd)
              : res \in results }

(***************************************************************************)
(* LED driver                                                              *)
(***************************************************************************)
\* gamma8[i] of the source is gamma8[i + 1] here
gamma8 ==
   <<
        0,   0,   0,   0,   0,   0,   0,   0,   0,   0,   0,   0,   0,   0,   0,   0,
        0,   0,   0,   0,   0,   0,   0,   0,   0,   0,   0,   0,   1,   1,   1,   1,
        1,   1,   1,   1,   1,   1,   1,   1,   1,   2,   2,   2,   2,   2,   2,   2,
        2,   3,   3,   3,   3,   3,   3,   3,   4,   4,   4,   4,   4,   5,   5,   5,
        5,   6,   6,   6,   6,   7,   7,   7,   7,   8,   8,   8,   9,   9,   9,  10,
       10,  10,  11,  11,  11,  12,  12,  13,  13,  13,  14,  14,  15,  15,  16,  16,
       17,  17,  18,  18,  19,  19,  20,  20,  21,  21,  22,  22,  23,  24,  24,  25,
       25,  26,  27,  27,  28,  29,  29,  30,  31,  32,  32,  33,  34,  35,  35,  36,
       37,  38,  39,  39,  40,  41,  42,  43,  44,  45,  46,  47,  48,  49,  50,  50,
       51,  52,  54,  55,  56,  57,  58,  59,  60,  61,  62,  63,  64,  66,  67,  68,
       69,  70,  72,  73,  74,  75,  77,  78,  79,  81,  82,  83,  85,  86,  87,  89,
       90,  92,  93,  95,  96,  98,  99, 101, 102, 104, 105, 107, 109, 110, 112, 114,
      115, 117, 119, 120, 122, 124, 126, 127, 129, 131, 133, 135, 137, 138, 140, 142,
      144, 146, 148, 150, 152, 154, 156, 158, 160, 162, 164, 167, 169, 171, 173, 175,
      177, 180, 182, 184, 186, 189, 191, 193, 196, 198, 200, 203, 205, 208, 210, 213,
      215, 218, 220, 223, 225, 228, 231, 233, 236, 239, 241, 244, 247, 249, 252, 255
   >>

\* uint16_t brightness = (brightness_percent * 255) / 100;
\* uint16_t scaled = (color * brightness) / 255;  the index into gamma8
gamma_index_scale_256(color, brightness_percent) ==
    LET brightness == ((brightness_percent * 256) \div 100) % 65536
    IN  ((color * brightness) \div 255) % 65536
gamma_index(color, brightness_percent) ==
    LET brightness == ((brightness_percent * 255) \div 100) % 65536
    IN  ((color * brightness) \div 255) % 65536

apply_gamma_brightness(color, brightness_percent) ==
    gamma8[gamma_index(color, brightness_percent) + 1]

\* led_strip_pixels after led_set_color(r, g, b, brightness): GRB order
led_set_color(r, g, b, brightness) ==
    << apply_gamma_brightness(g, brightness),
       apply_gamma_brightness(r, brightness),
       apply_gamma_brightness(b, brightness) >>

led_turn_off == led_set_color(0, 0, 0, 0)

\* the switch of led_control_task: the pixels written for a command
led_apply(cmd) ==
    IF cmd.type = "LED_CMD_SET_COLOR"
    THEN led_set_color(cmd.r, cmd.g, cmd.b, cmd.brightness)
    ELSE led_turn_off

\* the commands the server task sends on connect and on disconnect
GreenCmd == LedCmd("LED_CMD_SET_COLOR", 0, 255, 0, 20)
BlueCmdBright == LedCmd("LED_CMD_SET_COLOR", 0, 0, 255, 100)
BlueCmd == LedCmd("LED_CMD_SET_COLOR", 0, 0, 255, 20)

\* xQueueSend(queue, &cmd, ticks) returns: at once with ticks 0, and with
\* portMAX_DELAY only when the queue has room
xQueueSendReturnsOnlyNoWait(items, ticks) == ticks = "0"
xQueueSendReturns(items, ticks) == Len(items) < QUEUE_LENGTH \/ ticks = "0"

\* the queue after xQueueSend has returned: the command is at the back, or,
\* when the wait ended on a full queue, dropped
xQueueSendUnbounded(items, cmd) == Append(items, cmd)
xQueueSend(items, cmd) ==
    IF Len(items) < QUEUE_LENGTH THEN Append(items, cmd) ELSE items

\* the ticks the server task waits for the indicators, and handle_led_control
\* for its command
IndicatorTicksWait == "portMAX_DELAY"
IndicatorTicks == "0"
LedControlTicksNoWait == "0"
LedControlTicks == "portMAX_DELAY"

(***************************************************************************)
(* State                                                                   *)
(***************************************************************************)
VARIABLES
    booted,             \* app_main has run
    led_command_queue,  \* [created, items]: the handle is non-NULL, the queue's content
    led_pc,             \* led_control_task: "none" | "idle" | "applying"
    led_task_cmd,       \* led_control_task's local led_cmd
    led_strip_pixels,   \* the GRB pixel buffer handed to the RMT driver
    net_pc,             \* mcp_server_task: "none" | "accept" | "recv" | "scan" |
                        \*                  "xqueue" | "send" | "dead"
    sock,               \* the accepted socket: "none" | "open" | "closed"
    pending_data,       \* the C string in pending_data
    line_start,         \* offset of line_start in pending_data
    newline_pos,        \* offset of newline_pos in pending_data
    request,            \* the line handle_mcp_request is working on
    led_cmd,            \* handle_led_control's led_cmd, waiting in xQueueSend
    response_buffer,    \* the response, as wire symbols
    response_len,
    to_write,
    tx,                 \* what send() has accepted on the current connection
    stream,             \* history: what recv() has delivered on the current connection
    dispatched,         \* history: the lines passed to handle_mcp_request on it
    truncated,          \* history: a chunk did not fit into pending_data on it
    enqueued,           \* history: every command the queue accepted
    enq_mark,           \* history: Len(enqueued) when the current request was dispatched
    handled,            \* history: what handle_mcp_request left for each line, on
                        \*          every connection so far: [line, response, cmd]
    applied,            \* history: every command led_control_task has carried out
    rmt_failed,         \* history: a led_set_color has returned an error
    nconn,              \* connections accepted so far
    nbytes              \* symbols received so far

ledVars == <<led_pc, led_task_cmd, led_strip_pixels, applied, rmt_failed>>
connVars == <<sock, pending_data, line_start, newline_pos, request, led_cmd,
              response_buffer, response_len, to_write>>
histVars == <<tx, stream, dispatched, truncated, enq_mark, handled, nconn, nbytes>>
vars == <<booted, led_command_queue, enqueued, net_pc, ledVars, connVars, histVars>>

\* a response on the wire
R(response) == [k |-> "response", r |-> response]

Init ==
    /\ booted = FALSE
    /\ led_command_queue = [created |-> FALSE, items |-> <<>>]
    /\ led_pc = "none"
    /\ led_task_cmd = NoCmd
    /\ led_strip_pixels = <<0, 0, 0>>
    /\ net_pc = "none"
    /\ sock = "none"
    /\ pending_data = <<>>
    /\ line_start = 0
    /\ newline_pos = 0
    /\ request = <<>>
    /\ led_cmd = NoCmd
    /\ response_buffer = <<>>
    /\ response_len = 0
    /\ to_write = 0
    /\ tx = <<>>
    /\ stream = <<>>
    /\ dispatched = <<>>
    /\ truncated = FALSE
    /\ enqueued = <<>>
    /\ enq_mark = 0
    /\ handled = {}
    /\ applied = <<>>
    /\ rmt_failed = FALSE
    /\ nconn = 0
    /\ nbytes = 0

(***************************************************************************)
(* app_main                                                                *)
(***************************************************************************)
\* The tasks app_main leaves running, given what succeeded: led_init, the
\* queue's creation, and the creation of the two tasks.  A failed led_init
\* aborts (ESP_ERROR_CHECK); each later failure returns at once.
StartedQueue(ledInitOk, queueOk) == ledInitOk /\ queueOk
StartedLedTask(ledInitOk, queueOk, ledTaskOk) == ledInitOk /\ queueOk /\ ledTaskOk
StartedMcpTaskWithoutQueue(ledInitOk, queueOk, ledTaskOk, mcpTaskOk) == ledInitOk /\ mcpTaskOk
StartedMcpTaskWithoutLedTask(ledInitOk, queueOk, ledTaskOk, mcpTaskOk) ==
    ledInitOk /\ queueOk /\ mcpTaskOk
StartedMcpTask(ledInitOk, queueOk, ledTaskOk, mcpTaskOk) ==
    ledInitOk /\ queueOk /\ ledTaskOk /\ mcpTaskOk

AppMain ==
    /\ ~booted
    /\ booted' = TRUE
    /\ \E ledInitOk, queueOk, ledTaskOk, mcpTaskOk \in BOOLEAN :
        /\ led_strip_pixels' = led_set_color(0, 0, 255, 20)
        /\ led_command_queue' =
               [created |-> StartedQueue(ledInitOk, queueOk), items |-> <<>>]
        /\ led_pc' = IF StartedLedTask(ledInitOk, queueOk, ledTaskOk)
                     THEN "idle" ELSE "none"
        /\ net_pc' = IF StartedMcpTask(ledInitOk, queueOk, ledTaskOk, mcpTaskOk)
                     THEN "accept" ELSE "none"
    /\ UNCHANGED <<led_task_cmd, applied, rmt_failed, enqueued, connVars, histVars>>

(***************************************************************************)
(* mcp_server_task and handle_mcp_connection                               *)
(***************************************************************************)
\* if (led_command_queue != NULL) xQueueSend(led_command_queue, &cmd, 0);
\* enqueued records the command when the queue took it
IndicatorSend(cmd) ==
    IF led_command_queue.created
    THEN /\ xQueueSendReturns(led_command_queue.items, IndicatorTicks)
         /\ led_command_queue' =
                [led_command_queue EXCEPT !.items = xQueueSend(@, cmd)]
         /\ enqueued' = IF xQueueSend(led_command_queue.items, cmd)
                            # led_command_queue.items
                         THEN Append(enqueued, cmd) ELSE enqueued
    ELSE UNCHANGED <<led_command_queue, enqueued>>

\* the locals of handle_mcp_connection, as a new call finds them
FreshConnectionKeepsPending ==
    /\ pending_data' = SubSeq(pending_data, line_start + 1, Len(pending_data))
    /\ line_start' = 0
    /\ newline_pos' = 0
    /\ request' = <<>>
    /\ led_cmd' = NoCmd
    /\ response_buffer' = <<>>
    /\ response_len' = 0
    /\ to_write' = 0
FreshConnection ==
    /\ pending_data' = <<>>
    /\ line_start' = 0
    /\ newline_pos' = 0
    /\ request' = <<>>
    /\ led_cmd' = NoCmd
    /\ response_buffer' = <<>>
    /\ response_len' = 0
    /\ to_write' = 0

\* where mcp_server_task goes when handle_mcp_connection has returned: the
\* while (1) loop calls accept() again
AfterConnectionExit == "dead"
AfterConnection == "accept"

\* handle_mcp_connection returns: the blue indicator, shutdown(sock) and
\* close(sock), and the task is back in accept()
Teardown ==
    /\ IndicatorSend(BlueCmd)
    /\ FreshConnection
    /\ sock' = "closed"
    /\ net_pc' = AfterConnection
    /\ UNCHANGED <<booted, ledVars, histVars>>

\* accept() returns a socket: the green indicator, and handle_mcp_connection
\* starts and blocks in recv()
Accept ==
    /\ net_pc = "accept"
    /\ nconn < MaxConns
    /\ nconn' = nconn + 1
    /\ IndicatorSend(GreenCmd)
    /\ FreshConnection
    /\ sock' = "open"
    /\ tx' = <<>>
    /\ stream' = <<>>
    /\ dispatched' = <<>>
    /\ truncated' = FALSE
    /\ enq_mark' = 0
    /\ net_pc' = "recv"
    /\ UNCHANGED <<booted, ledVars, handled, nbytes>>

\* socket(), bind(), listen() or accept() fails: the task deletes itself
AcceptFail ==
    /\ net_pc = "accept"
    /\ net_pc' = "dead"
    /\ UNCHANGED <<booted, led_command_queue, enqueued, ledVars, connVars, histVars>>

\* recv() delivers a chunk of 1 .. sizeof(rx_buffer) - 1 symbols, which is
\* appended to pending_data
Recv(chunks, limit) ==
    /\ net_pc = "recv"
    /\ \E chunk \in chunks :
        /\ Len(chunk) \in 1..(MCP_BUFFER_SIZE - 1)
        /\ nbytes + Len(chunk) <= limit
        /\ nbytes' = nbytes + Len(chunk)
        /\ stream' = stream \o chunk
        /\ truncated' = (truncated \/
                         Len(pending_data) + Len(chunk) > MCP_BUFFER_SIZE - 1)
        /\ pending_data' = strncat(pending_data, chunk,
                                   MCP_BUFFER_SIZE - strlen(pending_data) - 1)
    /\ line_start' = 0
    /\ net_pc' = "scan"
    /\ UNCHANGED <<booted, sock, led_command_queue, enqueued, ledVars, newline_pos,
                   request, led_cmd, response_buffer, response_len, to_write,
                   tx, dispatched, enq_mark, handled, nconn>>

\* recv() returns 0 (the client closed) or a negative value (an error)
RecvEnd ==
    /\ net_pc = "recv"
    /\ Teardown

\* The response of handle_mcp_request is in response_buffer: the newline is
\* added and the send loop starts; with no response the next line is looked
\* for.
\* if (response_len < sizeof(response_buffer) - 1): the newline is appended
NewlineNeverFits(len) == FALSE
NewlineFits(len) == len < MCP_BUFFER_SIZE - 1

Respond(len, response, nl) ==
    IF len > 0
    THEN LET fits == NewlineFits(len)
         IN  /\ response_buffer' = IF fits THEN <<R(response), LF>> ELSE <<R(response)>>
             /\ response_len' = IF fits THEN len + 1 ELSE len
             /\ to_write' = IF fits THEN len + 1 ELSE len
             /\ net_pc' = "send"
             /\ UNCHANGED line_start
    ELSE /\ line_start' = nl + 1
         /\ net_pc' = "scan"
         /\ UNCHANGED <<response_buffer, response_len, to_write>>

\* One turn of the while (strchr(line_start, '\n')) loop, up to the point
\* where the task can block: with no newline the rest is moved to the front
\* of pending_data and recv() is called; an empty line is skipped; any other
\* line goes to handle_mcp_request, which runs to its return or to its
\* xQueueSend.
\* handle_mcp_request(line_start, response_buffer, sizeof(response_buffer)):
\* the call passes the line and nothing else, and handle_mcp_request reads
\* no variable of the program but led_command_queue
DispatchAfterInitialize(line) ==
    LET initialized ==
            \E h \in handled : /\ cJSON_Parse(h.line) # ParseFail
                               /\ cJSON_Parse(h.line).method = JStr("initialize")
    IN  IF initialized \/ cJSON_Parse(line) = ParseFail
           \/ cJSON_Parse(line).method = JStr("initialize")
        THEN handle_mcp_request(line)
        ELSE { IF out.len > 0
               THEN Outcome(1, Envelope(out.response.id, "error",
                                        ErrorBody(-32002, "Server not initialized")),
                            NoCmd)
               ELSE out : out \in handle_mcp_request(line) }
Dispatch(line) == handle_mcp_request(line)

\* if (strlen(line_start) > 0): the line goes to handle_mcp_request
ShouldDispatchAlways(line) == TRUE
ShouldDispatch(line) == strlen(line) > 0

Scan ==
    /\ net_pc = "scan"
    /\ LET nl == strchr_lf(pending_data, line_start)
           line == SubSeq(pending_data, line_start + 1, nl)
       IN  IF nl = -1
           THEN /\ pending_data' = SubSeq(pending_data, line_start + 1, Len(pending_data))
                /\ line_start' = 0
                /\ net_pc' = "recv"
                /\ UNCHANGED <<newline_pos, request, led_cmd, response_buffer,
                               response_len, to_write, dispatched, enq_mark,
                               handled>>
           ELSE IF ~ShouldDispatch(line)
           THEN /\ line_start' = nl + 1
                /\ newline_pos' = nl
                /\ UNCHANGED <<net_pc, pending_data, request, led_cmd, response_buffer,
                               response_len, to_write, dispatched, enq_mark,
                               handled>>
           ELSE /\ newline_pos' = nl
                /\ dispatched' = Append(dispatched, line)
                /\ enq_mark' = Len(enqueued)
                /\ \E out \in Dispatch(line) :
                     /\ handled' = handled \cup
                            {[line |-> line,
                              response |-> IF out.len > 0 THEN R(out.response)
                                           ELSE NoResponse,
                              cmd |-> out.cmd]}
                     /\ IF out.cmd # NoCmd /\ led_command_queue.created
                        THEN /\ request' = line
                             /\ led_cmd' = out.cmd
                             /\ response_buffer' = <<R(out.response)>>
                             /\ response_len' = out.len
                             /\ net_pc' = "xqueue"
                             /\ UNCHANGED <<line_start, to_write>>
                        ELSE /\ request' = IF out.len > 0 THEN line ELSE <<>>
                             /\ Respond(out.len, out.response, nl)
                             /\ UNCHANGED led_cmd
                /\ UNCHANGED pending_data
    /\ UNCHANGED <<booted, sock, led_command_queue, enqueued, ledVars, tx, stream,
                   truncated, nconn, nbytes>>

\* xQueueSend(led_command_queue, &led_cmd, portMAX_DELAY) in
\* handle_led_control: waits for a free slot; then the handlers return and
\* the response goes to the send loop
XQueueSend ==
    /\ net_pc = "xqueue"
    /\ xQueueSendReturns(led_command_queue.items, LedControlTicks)
    /\ led_command_queue' = [led_command_queue EXCEPT !.items = xQueueSend(@, led_cmd)]
    /\ enqueued' = IF xQueueSend(led_command_queue.items, led_cmd)
                       # led_command_queue.items
                    THEN Append(enqueued, led_cmd) ELSE enqueued
    /\ led_cmd' = NoCmd
    /\ Respond(response_len, response_buffer[1].r, newline_pos)
    /\ UNCHANGED <<booted, sock, ledVars, pending_data, newline_pos, request, histVars>>

\* response_buffer + (response_len - to_write): where send() reads from
send_offset_restart(len, left) == 0
send_offset(len, left) == len - left

\* One send() of the send loop: it accepts 0 .. to_write symbols
SendSome ==
    /\ net_pc = "send"
    /\ \E written \in 0..to_write :
        /\ tx' = tx \o SubSeq(response_buffer,
                              send_offset(response_len, to_write) + 1,
                              send_offset(response_len, to_write) + written)
        /\ IF to_write - written > 0
           THEN /\ to_write' = to_write - written
                /\ UNCHANGED <<net_pc, line_start, request, response_buffer, response_len>>
           ELSE /\ to_write' = 0
                /\ response_buffer' = <<>>
                /\ response_len' = 0
                /\ request' = <<>>
                /\ line_start' = newline_pos + 1
                /\ net_pc' = "scan"
    /\ UNCHANGED <<booted, sock, led_command_queue, enqueued, ledVars, pending_data,
                   newline_pos, led_cmd, stream, dispatched, truncated, enq_mark,
                   handled, nconn, nbytes>>

\* send() returns a negative value: handle_mcp_connection returns
SendFail ==
    /\ net_pc = "send"
    /\ Teardown

(***************************************************************************)
(* led_control_task                                                        *)
(***************************************************************************)
\* the command xQueueReceive takes from the queue, and what it leaves
QueueBack(items) == items[Len(items)]
QueueFront(items) == Head(items)
QueueRestDropsOne(items) == IF Len(items) >= 2 THEN Tail(Tail(items)) ELSE Tail(items)
QueueRest(items) == Tail(items)

\* xQueueReceive(led_command_queue, &led_cmd, portMAX_DELAY) returns
LedReceive ==
    /\ led_pc = "idle"
    /\ led_command_queue.items # <<>>
    /\ led_task_cmd' = QueueFront(led_command_queue.items)
    /\ led_command_queue' =
           [led_command_queue EXCEPT !.items = QueueRest(led_command_queue.items)]
    /\ led_pc' = "applying"
    /\ UNCHANGED <<booted, enqueued, net_pc, led_strip_pixels, applied, rmt_failed,
                   connVars, histVars>>

\* what rmt_transmit and rmt_tx_wait_all_done can leave in ret
RmtOk == {"ESP_OK"}
RmtResults == {"ESP_OK", "ESP_FAIL"}

\* where led_control_task goes after led_set_color / led_turn_off returned
\* ret: the value is discarded and the loop goes round
AfterApplyStopOnError(ret) == IF ret = "ESP_OK" THEN "idle" ELSE "none"
AfterApply(ret) == "idle"

\* led_set_color / led_turn_off for the command: the pixels are written,
\* then rmt_transmit and rmt_tx_wait_all_done return one of rets (the task
\* discards it), and the delay; the task is back in xQueueReceive
LedApply(rets) ==
    /\ led_pc = "applying"
    /\ led_strip_pixels' = led_apply(led_task_cmd)
    /\ applied' = Append(applied, led_task_cmd)
    /\ led_task_cmd' = NoCmd
    /\ \E ret \in rets :
        /\ rmt_failed' = (rmt_failed \/ ret # "ESP_OK")
        /\ led_pc' = AfterApply(ret)
    /\ UNCHANGED <<booted, led_command_queue, enqueued, net_pc, connVars, histVars>>

(***************************************************************************)
(* Inputs                                                                  *)
(***************************************************************************)
Call(id, name, arguments) == Req(id, JStr("tools/call"), Params(name, arguments))

\* a notification, which is answered by nothing
Notification == Req(JAbsent, JStr("notifications/initialized"), JAbsent)

\* The system specification: two led_control calls and initialize, one
\* message per chunk.  The queue specification: enough led_control calls to
\* fill the queue.
SysDocs ==
    { Call(JNum(2), JStr("led_control"),
           LedArgs(JStr("red"), JAbsent, JAbsent, JAbsent, JNum(300))),
      Call(JNum(4), JStr("led_control"),
           LedArgs(JStr("off"), JAbsent, JAbsent, JAbsent, JAbsent)),
      Req(JNum(6), JStr("initialize"), JAbsent) }
SysChunks == { <<J(d), LF>> : d \in SysDocs }
QueueChunks ==
    { <<J(Call(JNum(2), JStr("led_control"),
               LedArgs(JStr("red"), JAbsent, JAbsent, JAbsent, JNum(300)))), LF>> }

\* The session specification: initialize, tools/list and a led_control call,
\* in any order and number, one message per chunk.
ListRequest == Req(JNum(8), JStr("tools/list"), JAbsent)
InitializeRequest == Req(JNum(6), JStr("initialize"), JAbsent)
SessionDocs ==
    { InitializeRequest, ListRequest,
      Call(JNum(2), JStr("led_control"),
           LedArgs(JStr("red"), JAbsent, JAbsent, JAbsent, JNum(300))) }
SessionChunks == { <<J(d), LF>> : d \in SessionDocs }

\* The framing specification: every chunk over LF, NUL, X and a notification.
FrameAlphabet == {LF, NUL, X, J(Notification)}
FrameChunks == UNION { [1..n -> FrameAlphabet] : n \in 1..(MCP_BUFFER_SIZE - 1) }

\* The dispatch specification: one message per chunk, over a wide set of
\* documents.
Ids == {JAbsent, JNull, JNum(2), JNum(14), JNum(-4), JStr("abc"), JStr("7")}
Methods == {JAbsent, JNum(2), JStr("initialize"), JStr("tools/list"),
            JStr("tools/call"), JStr("notifications/initialized"), JStr("ping"),
            JStr("tools/calls")}
Names == {JAbsent, JNum(2), JStr("wifi_status"), JStr("led_control"),
          JStr("compute_add"), JStr("compute_multiply"), JStr("led_controls")}
Colors == {JAbsent, JNum(2), JStr("red"), JStr("green"), JStr("blue"),
           JStr("yellow"), JStr("magenta"), JStr("cyan"), JStr("white"),
           JStr("off"), JStr("purple")}
Components == {JAbsent, JStr("10"), JNum(0), JNum(20), JNum(3), JNum(510),
               JNum(600), JNum(-2), JNum(-1)}
Brightnesses == {JAbsent, JStr("50"), JNum(-10), JNum(0), JNum(100), JNum(101),
                 JNum(200), JNum(300), JNum(1000)}
Operands == {JAbsent, JStr("2"), JNum(4), JNum(6), JNum(3), JNum(-5)}

SomeParams ==
    {JAbsent,
     Params(JAbsent, JAbsent),
     Params(JNum(2), LedArgs(JStr("red"), JAbsent, JAbsent, JAbsent, JAbsent)),
     Params(JStr("led_controls"),
            LedArgs(JStr("red"), JAbsent, JAbsent, JAbsent, JAbsent)),
     Params(JStr("led_control"), JAbsent),
     Params(JStr("led_control"),
            LedArgs(JStr("red"), JAbsent, JAbsent, JAbsent, JNum(300))),
     Params(JStr("led_control"),
            LedArgs(JStr("off"), JNum(20), JNum(40), JNum(60), JAbsent)),
     Params(JStr("wifi_status"), JAbsent),
     Params(JStr("compute_add"), NumArgs(JNum(4), JNum(6)))}

EnvelopeDocs ==
    { Req(id, method, params) : id \in Ids, method \in Methods, params \in SomeParams }

\* led_control calls: every color with every brightness, with all or none
\* of r, g, b; and every r with some colors, g, b and brightnesses
LedDocs ==
    { Call(JNum(2), JStr("led_control"), LedArgs(color, rgb[1], rgb[2], rgb[3], brightness)) :
        color \in Colors,
        rgb \in {<<JAbsent, JAbsent, JAbsent>>, <<JNum(20), JNum(40), JNum(60)>>},
        brightness \in Brightnesses }
    \cup
    { Call(JNum(2), JStr("led_control"), LedArgs(color, r, g, b, brightness)) :
        color \in {JAbsent, JStr("purple"), JStr("off"), JStr("cyan")},
        r \in Components, g \in {JAbsent, JNum(600)}, b \in {JAbsent, JNum(3)},
        brightness \in {JAbsent, JNum(101)} }

ComputeDocs ==
    { Call(JNum(2), name, NumArgs(a, b)) :
        name \in {JStr("compute_add"), JStr("compute_multiply")},
        a \in Operands, b \in Operands }

WifiDocs ==
    { Call(JNum(2), JStr("wifi_status"), WifiArgs(detailed)) :
        detailed \in {JAbsent, JTrue, JFalse, JStr("true")} }

DispatchDocs == EnvelopeDocs \cup LedDocs \cup ComputeDocs \cup WifiDocs
DispatchChunks == { <<J(d), LF>> : d \in DispatchDocs } \cup {<<X, LF>>}

(***************************************************************************)
(* Specifications                                                          *)
(***************************************************************************)
Next ==
    \/ AppMain
    \/ Accept
    \/ AcceptFail
    \/ Recv(SysChunks, MaxBytesSys)
    \/ RecvEnd
    \/ Scan
    \/ XQueueSend
    \/ SendSome
    \/ SendFail
    \/ LedReceive
    \/ LedApply(RmtResults)

Spec == Init /\ [][Next]_vars

NextQueue ==
    \/ AppMain
    \/ Accept
    \/ AcceptFail
    \/ Recv(QueueChunks, MaxBytesQueue)
    \/ RecvEnd
    \/ Scan
    \/ XQueueSend
    \/ SendSome
    \/ SendFail
    \/ LedReceive
    \/ LedApply(RmtOk)

SpecQueue == Init /\ [][NextQueue]_vars

\* The queue specification with the two tasks scheduled fairly: both are
\* created with priority 5, so the scheduler shares the processor between
\* them whenever both are ready: the LED task goes on when a command is in
\* the queue or in its hands, and handle_led_control goes on when the queue
\* has room.  Nothing is assumed of the client or of the transport.
SpecQueueFair ==
    /\ Init
    /\ [][NextQueue]_vars
    /\ WF_vars(LedReceive)
    /\ WF_vars(LedApply(RmtOk))
    /\ WF_vars(XQueueSend)

NextFrame ==
    \/ AppMain
    \/ Accept
    \/ AcceptFail
    \/ Recv(FrameChunks, MaxBytesFrame)
    \/ RecvEnd
    \/ Scan
    \/ SendSome
    \/ SendFail
    \/ LedReceive
    \/ LedApply(RmtOk)

SpecFrame == Init /\ [][NextFrame]_vars

NextDispatch ==
    \/ AppMain
    \/ Accept
    \/ AcceptFail
    \/ Recv(DispatchChunks, MaxBytesDispatch)
    \/ RecvEnd
    \/ Scan
    \/ XQueueSend
    \/ SendSome
    \/ SendFail
    \/ LedReceive
    \/ LedApply(RmtOk)

SpecDispatch == Init /\ [][NextDispatch]_vars

NextSession ==
    \/ AppMain
    \/ Accept
    \/ AcceptFail
    \/ Recv(SessionChunks, MaxBytesSession)
    \/ RecvEnd
    \/ Scan
    \/ XQueueSend
    \/ SendSome
    \/ SendFail
    \/ LedReceive
    \/ LedApply(RmtOk)

SpecSession == Init /\ [][NextSession]_vars

\* The LED driver's specification: the LED task with one command in the
\* queue, for every command a uint8_t color and a brightness of 0..100 can
\* make (r runs through 0..255 and g through 255..0), and the Off command.
GammaCommands ==
    { LedCmd("LED_CMD_SET_COLOR", color, 255 - color, 0, brightness) :
        color \in 0..255, brightness \in 0..100 }
    \cup {OffCommand}

InitGamma ==
    /\ booted = TRUE
    /\ \E cmd \in GammaCommands :
        /\ led_command_queue = [created |-> TRUE, items |-> <<cmd>>]
        /\ enqueued = <<cmd>>
    /\ led_pc = "idle"
    /\ led_task_cmd = NoCmd
    /\ led_strip_pixels = led_set_color(0, 0, 255, 20)
    /\ net_pc = "accept"
    /\ sock = "none"
    /\ pending_data = <<>>
    /\ line_start = 0
    /\ newline_pos = 0
    /\ request = <<>>
    /\ led_cmd = NoCmd
    /\ response_buffer = <<>>
    /\ response_len = 0
    /\ to_write = 0
    /\ tx = <<>>
    /\ stream = <<>>
    /\ dispatched = <<>>
    /\ truncated = FALSE
    /\ enq_mark = 0
    /\ handled = {}
    /\ applied = <<>>
    /\ rmt_failed = FALSE
    /\ nconn = 0
    /\ nbytes = 0

NextGamma ==
    \/ LedReceive
    \/ LedApply(RmtOk)

SpecGamma == InitGamma /\ [][NextGamma]_vars

(***************************************************************************)
(* Properties                                                              *)
(***************************************************************************)
\* the parsed document of a line, and what the claims say of it
Doc(line) == cJSON_Parse(line)
Parses(line) == Doc(line) # ParseFail
HasStringMethod(line) == Parses(line) /\ Doc(line).method.t = "string"
HasNoId(line) == Parses(line) /\ Doc(line).id.t \in {"absent", "null"}
\* the response in the send buffer
Response == response_buffer[1].r

\* C1: for every dispatched message with a string method and a non-null id,
\* the id of the response equals the id of the request, in type and value.
C1_ResponseEchoesId ==
    (net_pc = "send" /\ HasStringMethod(request) /\ ~HasNoId(request))
        => Response.id = Doc(request).id

\* C2: a message whose id is absent or null gets return value 0 from
\* handle_mcp_request and the connection loop sends nothing for it: the
\* step that dispatches it leaves no response and goes on to the next
\* line, and every symbol that reaches the socket belongs to the response
\* to a message that is no such message.
C2_NotificationsGetNoResponse ==
    [][ /\ (Len(dispatched') > Len(dispatched) /\ HasNoId(Last(dispatched')))
            => /\ net_pc' = "scan"
               /\ response_len' = 0
               /\ response_buffer' = <<>>
               /\ tx' = tx
        /\ (Len(tx') > Len(tx)) => (net_pc = "send" /\ ~HasNoId(request)) ]_vars

\* C2 witness: a tools/call of led_control without id has been dispatched
\* and nothing was sent
C2_Witness ==
    /\ net_pc = "recv"
    /\ dispatched # <<>>
    /\ HasNoId(Last(dispatched))
    /\ Doc(Last(dispatched)).method = JStr("tools/call")
    /\ Doc(Last(dispatched)).params # JAbsent
    /\ Doc(Last(dispatched)).params.name = JStr("led_control")
    /\ tx = <<>>

\* a tools/call of led_control with an id, and its arguments
IsLedCall(line) ==
    /\ HasStringMethod(line)
    /\ ~HasNoId(line)
    /\ Doc(line).method.s = "tools/call"
    /\ Doc(line).params # JAbsent
    /\ Doc(line).params.name = JStr("led_control")
LedArguments(line) == Doc(line).params.arguments
\* the commands the queue took for the request that is being answered
EnqueuedForRequest == SubSeq(enqueued, enq_mark + 1, Len(enqueued))

\* C3: when the response to a led_control call is ready to be sent, the
\* queue has taken exactly one command for the call if the response is a
\* success and none if it is an error; and while the server task runs the
\* queue exists.
C3_SuccessMeansOneCommand ==
    /\ net_pc \in {"accept", "recv", "scan", "xqueue", "send"}
           => led_command_queue.created
    /\ (net_pc = "send" /\ IsLedCall(request))
           => /\ Response.kind \in {"result", "error"}
              /\ Len(EnqueuedForRequest) = IF Response.kind = "result" THEN 1 ELSE 0

\* C3 witness: a led_control call is answered with a success and one
\* command was taken for it
C3_Witness ==
    /\ net_pc = "send"
    /\ IsLedCall(request)
    /\ Response.kind = "result"
    /\ Len(EnqueuedForRequest) = 1
    /\ led_command_queue.created

\* C4: while handle_led_control waits on a queue that holds QUEUE_LENGTH
\* commands, no step drops its command, answers or goes on; the handler
\* leaves its xQueueSend only by putting that command at the back of a
\* queue that had room, and only then is the response ready to be sent, of
\* which nothing has been sent yet.
C4_FullQueueBlocksLedControl ==
    [][ /\ (net_pc = "xqueue" /\ Len(led_command_queue.items) = QUEUE_LENGTH)
            => /\ net_pc' = "xqueue"
               /\ led_cmd' = led_cmd
               /\ enqueued' = enqueued
               /\ dispatched' = dispatched
               /\ tx' = tx
        /\ (net_pc = "xqueue" /\ net_pc' = "xqueue") => led_cmd' = led_cmd
        /\ (net_pc = "xqueue" /\ net_pc' # "xqueue")
            => /\ Len(led_command_queue.items) < QUEUE_LENGTH
               /\ led_command_queue'.items = Append(led_command_queue.items, led_cmd)
               /\ enqueued' = Append(enqueued, led_cmd)
               /\ net_pc' = "send"
               /\ tx' = tx ]_vars

\* C4 witness: the handler waits with its command on a full queue
C4_Witness ==
    /\ net_pc = "xqueue"
    /\ Len(led_command_queue.items) = QUEUE_LENGTH
    /\ led_cmd.type = "LED_CMD_SET_COLOR"

\* the command the LED task has taken and not yet applied
InHand == IF led_pc = "applying" THEN <<led_task_cmd>> ELSE <<>>

\* C5: the commands applied, the one in the LED task's hand and the ones in
\* the queue are, in this order, the commands the queue took: each is
\* applied once and in the order of its enqueueing; a command is taken from
\* the queue only when the one before it has been applied; and the pixel
\* shows the command applied last (the blue of led_init before the first).
C5_FifoExactlyOnce ==
    /\ [](/\ applied \o InHand \o led_command_queue.items = enqueued
          /\ led_strip_pixels =
                 IF applied # <<>> THEN led_apply(Last(applied))
                 ELSE IF booted THEN led_set_color(0, 0, 255, 20)
                 ELSE <<0, 0, 0>>)
    /\ [][ /\ Len(led_command_queue'.items) < Len(led_command_queue.items)
               => /\ led_pc = "idle"
                  /\ led_pc' = "applying"
                  /\ led_task_cmd' = Head(led_command_queue.items)
           /\ applied' # applied
               => /\ led_pc = "applying"
                  /\ applied' = Append(applied, led_task_cmd) ]_vars

\* C5 witness: three commands have been applied, a fourth is in hand and
\* two more wait, and what was applied are two different commands
C5_Witness ==
    /\ Len(applied) >= 3
    /\ led_pc = "applying"
    /\ Len(led_command_queue.items) >= 2
    /\ applied[2] # applied[3]
    /\ led_strip_pixels = led_apply(applied[3])

\* the lines a stream holds: what stands before each LF, and the rest
RECURSIVE Lines(_)
Lines(s) ==
    IF \E i \in 1..Len(s) : s[i] = LF
    THEN LET nl == strchr_lf(s, 0)
         IN  <<SubSeq(s, 1, nl)>> \o Lines(SubSeq(s, nl + 2, Len(s)))
    ELSE <<>>
NonEmptyLines(s) == SelectSeq(Lines(s), LAMBDA line : line # <<>>)

\* C6: on a connection on which pending_data never overflowed, whenever the
\* task waits in recv() the messages dispatched so far are the non-empty
\* LF-terminated segments of the stream received so far, in order, however
\* the stream was split into chunks.
C6_DispatchedAreStreamSegments ==
    (net_pc = "recv" /\ ~truncated) => dispatched = NonEmptyLines(stream)

\* C7: a chunk that does not fit into pending_data fails the connection:
\* the chunk is not scanned, nothing more is dispatched and received on it,
\* and the task is back in accept().
C7_OverflowFailsConnection == truncated => net_pc = "accept"

\* the commands that are queued, in the LED task's hand or in the hand of
\* handle_led_control
CommandsInFlight ==
    {led_command_queue.items[i] : i \in 1..Len(led_command_queue.items)}
        \cup {cmd \in {led_task_cmd, led_cmd} : cmd # NoCmd}
        \cup {applied[i] : i \in 1..Len(applied)}

\* C8: every command that is handed to the queue, queued, taken by the LED
\* task or applied has a brightness from 0 to 100.
C8_BrightnessInRange == \A cmd \in CommandsInFlight : cmd.brightness \in 0..100

\* C8 witness: a call with brightness 500 is answered and its command, of
\* brightness 100, is in the queue
C8_Witness ==
    /\ net_pc = "send"
    /\ IsLedCall(request)
    /\ LedArguments(request) # JAbsent
    /\ LedArguments(request).brightness = JNum(1000)
    /\ led_command_queue.items # <<>>
    /\ Last(led_command_queue.items).brightness = 100
    /\ Last(led_command_queue.items) = Last(enqueued)

\* a led_control call whose color is the string "off"
IsOffCall(line) ==
    /\ IsLedCall(line)
    /\ LedArguments(line) # JAbsent
    /\ LedArguments(line).color = JStr("off")

\* C9: a led_control call with color "off" is answered with the success
\* "LED turned off", and the queue has taken exactly one command for it,
\* the Off command, whatever r, g, b and brightness the call carries.
C9_OffEnqueuesOneOff ==
    (net_pc = "send" /\ IsOffCall(request))
        => /\ Response.kind = "result"
           /\ Response.body = TextBody("LED turned off", <<>>)
           /\ Len(EnqueuedForRequest) = 1
           /\ EnqueuedForRequest[1].type = "LED_CMD_OFF"

\* C9 witness: an "off" call that carries r, g and b is answered and the
\* Off command is the one the queue took last
C9_Witness ==
    /\ net_pc = "send"
    /\ IsOffCall(request)
    /\ LedArguments(request).r = JNum(20)
    /\ Last(enqueued).type = "LED_CMD_OFF"
    /\ Response.kind = "result"

\* a led_control call that has arguments and is no "off" call
IsSetColorCall(line) ==
    /\ IsLedCall(line)
    /\ LedArguments(line) # JAbsent
    /\ LedArguments(line).color # JStr("off")

\* the triples of the named colors
NamedTriple(name) ==
    CASE name = "red" -> <<255, 0, 0>>
      [] name = "green" -> <<0, 255, 0>>
      [] name = "blue" -> <<0, 0, 255>>
      [] name = "yellow" -> <<255, 255, 0>>
      [] name = "magenta" -> <<255, 0, 255>>
      [] name = "cyan" -> <<0, 255, 255>>
      [] name = "white" -> <<255, 255, 255>>
IsNamed(color) ==
    /\ color.t = "string"
    /\ color.s \in {"red", "green", "blue", "yellow", "magenta", "cyan", "white"}
IsNum(item) == item.t = "number"

\* the command of a SetColor call and its response agree, and a named color
\* gives its triple
SetColorFrame(args, cmd) ==
    /\ Response.kind = "result"
    /\ Len(EnqueuedForRequest) = 1
    /\ cmd.type = "LED_CMD_SET_COLOR"
    /\ Response.body = TextBody("LED set to RGB(%d, %d, %d) with %d%% brightness",
                                <<cmd.r, cmd.g, cmd.b, cmd.brightness>>)
    /\ IsNamed(args.color) => <<cmd.r, cmd.g, cmd.b>> = NamedTriple(args.color.s)

\* C10 as written: with no named color each of r, g, b is the supplied
\* number, or 255 when none is supplied; brightness is the supplied number
\* clamped to [0, 100], or 20 when none is supplied.
C10_SetColorCarriesArguments ==
    (net_pc = "send" /\ IsSetColorCall(request))
        => LET args == LedArguments(request)
               cmd == Last(enqueued)
               Carries(item, field) ==
                   IF IsNum(item) THEN 2 * field = item.h ELSE field = 255
           IN  /\ SetColorFrame(args, cmd)
               /\ ~IsNamed(args.color)
                      => /\ Carries(args.r, cmd.r)
                         /\ Carries(args.g, cmd.g)
                         /\ Carries(args.b, cmd.b)
               /\ IF IsNum(args.brightness)
                  THEN 2 * cmd.brightness = Min(200, Max(0, args.brightness.h))
                  ELSE cmd.brightness = 20

\* C10 amended: with no named color each of r, g, b is 255 when absent or
\* no number, the number truncated toward zero when that is from 0 to 255,
\* and some value from 0 to 255 otherwise; brightness is the number clamped
\* to [0, 100] and then truncated toward zero, or 20 when absent or no
\* number.
C10_SetColorTruncates ==
    (net_pc = "send" /\ IsSetColorCall(request))
        => LET args == LedArguments(request)
               cmd == Last(enqueued)
               Whole(h) == IF h >= 0 THEN h \div 2 ELSE -((-h) \div 2)
               Carries(item, field) ==
                   IF IsNum(item)
                   THEN IF Whole(item.h) \in 0..255 THEN field = Whole(item.h)
                        ELSE field \in 0..255
                   ELSE field = 255
           IN  /\ SetColorFrame(args, cmd)
               /\ ~IsNamed(args.color)
                      => /\ Carries(args.r, cmd.r)
                         /\ Carries(args.g, cmd.g)
                         /\ Carries(args.b, cmd.b)
               /\ IF IsNum(args.brightness)
                  THEN cmd.brightness = Whole(Min(200, Max(0, args.brightness.h)))
                  ELSE cmd.brightness = 20

\* C10 witness: "cyan" with r = 1.5 and brightness 50.5 is answered: the
\* command is cyan at brightness 50
C10_Witness ==
    /\ net_pc = "send"
    /\ IsSetColorCall(request)
    /\ LedArguments(request).color = JStr("cyan")
    /\ LedArguments(request).r = JNum(3)
    /\ LedArguments(request).brightness = JNum(101)
    /\ Last(enqueued) = LedCmd("LED_CMD_SET_COLOR", 0, 255, 255, 50)
    /\ Response.body.args = <<0, 255, 255, 50>>

\* a line that is one JSON document and nothing else
IsJsonDocument(line) == Len(line) = 1 /\ line[1].k = "json"
\* the step passes a line to handle_mcp_request
Dispatches == Len(dispatched') > Len(dispatched)
ParseErrorResponse == Envelope(JNull, "error", ErrorBody(-32700, "Parse error"))

\* C11: the step that dispatches a non-empty line that is no JSON document
\* leaves exactly one response, with id null and error code -32700, ready
\* to be sent, and hands no command to the queue.
C11_UnparseableGetsParseError ==
    [][ (Dispatches /\ ~IsJsonDocument(Last(dispatched')))
            => /\ net_pc' = "send"
               /\ response_buffer' = <<R(ParseErrorResponse), LF>>
               /\ led_cmd' = NoCmd
               /\ enqueued' = enqueued ]_vars

\* a parseable line without a string method
HasNoStringMethod(line) == Parses(line) /\ Doc(line).method.t # "string"

\* C12: the step that dispatches a parseable line whose method is absent or
\* no string leaves no response and goes on to the next line, nothing is
\* sent for it and no command is handed to the queue, whatever its id.
C12_NoMethodIsDropped ==
    [][ (Dispatches /\ HasNoStringMethod(Last(dispatched')))
            => /\ net_pc' = "scan"
               /\ response_len' = 0
               /\ response_buffer' = <<>>
               /\ tx' = tx
               /\ led_cmd' = NoCmd
               /\ led_command_queue' = led_command_queue
               /\ enqueued' = enqueued ]_vars

\* C12 witness: a message with id 7 and a number as method was dispatched,
\* the task waits for more data and nothing was sent or enqueued for it
C12_Witness ==
    /\ net_pc = "recv"
    /\ dispatched # <<>>
    /\ HasNoStringMethod(Last(dispatched))
    /\ Doc(Last(dispatched)).id = JNum(14)
    /\ Doc(Last(dispatched)).method = JNum(2)
    /\ tx = <<>>
    /\ Len(enqueued) = enq_mark

\* a request with an id whose method is none of the three known methods
IsUnknownMethodCall(line) ==
    /\ HasStringMethod(line)
    /\ ~HasNoId(line)
    /\ Doc(line).method.s \notin {"initialize", "tools/list", "tools/call"}

\* C13: a request with a non-null id and an unknown method is answered with
\* the error -32601 "Method not found", and no command is enqueued for it.
C13_UnknownMethodNotFound ==
    (net_pc = "send" /\ IsUnknownMethodCall(request))
        => /\ Response.kind = "error"
           /\ Response.body = ErrorBody(-32601, "Method not found")
           /\ EnqueuedForRequest = <<>>

\* C13 witness: "tools/calls" with the params of a led_control call is
\* answered with an error
C13_Witness ==
    /\ net_pc = "send"
    /\ IsUnknownMethodCall(request)
    /\ Doc(request).method = JStr("tools/calls")
    /\ Doc(request).params # JAbsent
    /\ Doc(request).params.name = JStr("led_control")
    /\ Response.kind = "error"

\* a tools/call with an id
IsToolsCall(line) ==
    /\ HasStringMethod(line)
    /\ ~HasNoId(line)
    /\ Doc(line).method.s = "tools/call"
RegisteredTools == {"wifi_status", "led_control", "compute_add", "compute_multiply"}
ValidationErrors ==
    {ErrorBody(-32602, "Invalid params"), ErrorBody(-32602, "Missing tool name"),
     ErrorBody(-32601, "Tool not found")}

\* C14: a tools/call without params is answered with an error -32602;
\* otherwise one whose name is absent or no string with an error -32602;
\* otherwise one whose name is none of the four tools with an error -32601;
\* in these three cases no command is enqueued, and in no other case is one
\* of these three errors the answer.
C14_ToolsCallValidationOrder ==
    (net_pc = "send" /\ IsToolsCall(request))
        => LET params == Doc(request).params
               Rejected(code) == /\ Response.kind = "error"
                                 /\ Response.body \in ValidationErrors
                                 /\ Response.body.code = code
                                 /\ EnqueuedForRequest = <<>>
           IN  IF params = JAbsent THEN Rejected(-32602)
               ELSE IF params.name.t # "string" THEN Rejected(-32602)
               ELSE IF params.name.s \notin RegisteredTools THEN Rejected(-32601)
               ELSE Response.body \notin ValidationErrors

\* C14 witness: a call of "led_controls" with the arguments of a led_control
\* call is answered with -32601
C14_Witness ==
    /\ net_pc = "send"
    /\ IsToolsCall(request)
    /\ Doc(request).params # JAbsent
    /\ Doc(request).params.name = JStr("led_controls")
    /\ Doc(request).params.arguments # JAbsent
    /\ Response.body.code = -32601

\* the body is an error object: a code and a message
IsErrorObject(body) == DOMAIN body = {"code", "message"}

\* C15: every response in the send buffer has exactly one of result and
\* error, and it is error exactly when its body is the error object of a
\* handler that failed (or the parse error).
C15_ResultXorError ==
    net_pc = "send"
        => /\ Response.kind \in {"result", "error"}
           /\ Response.kind = "error" <=> IsErrorObject(Response.body)

\* C15 witness: compute_add without its operands is answered with an error
\* object
C15_Witness ==
    /\ net_pc = "send"
    /\ IsToolsCall(request)
    /\ Doc(request).params # JAbsent
    /\ Doc(request).params.name = JStr("compute_add")
    /\ Response.kind = "error"
    /\ Response.body = ErrorBody(-32602, "Both 'a' and 'b' parameters required")

\* the steps in which a client connects and disconnects
Connects == net_pc = "accept" /\ net_pc' = "recv"
Disconnects == net_pc \in {"recv", "send"} /\ net_pc' = "accept"
QueueFull == Len(led_command_queue.items) = QUEUE_LENGTH

\* C16: accept and teardown can always go ahead, whatever the queue holds;
\* the step of a connect or disconnect leaves a full queue as it is, the
\* indicator being dropped, and puts green (connect) or blue (disconnect) at
\* the back of a queue that has room.
C16_IndicatorsNeverBlock ==
    /\ [](/\ (net_pc = "accept" /\ nconn < MaxConns) => ENABLED Accept
          /\ net_pc = "recv" => ENABLED RecvEnd
          /\ net_pc = "send" => ENABLED SendFail)
    /\ [][ (Connects \/ Disconnects)
               => IF QueueFull
                  THEN /\ led_command_queue' = led_command_queue
                       /\ enqueued' = enqueued
                  ELSE led_command_queue'.items =
                           Append(led_command_queue.items,
                                  IF Connects
                                  THEN LedCmd("LED_CMD_SET_COLOR", 0, 255, 0, 20)
                                  ELSE LedCmd("LED_CMD_SET_COLOR", 0, 0, 255, 20)) ]_vars

\* C16 witness: a client has disconnected while the queue was full: the
\* task is back in accept(), the queue is full and blue is not in it
C16_Witness ==
    /\ net_pc = "accept"
    /\ nconn >= 1
    /\ QueueFull
    /\ \A i \in 1..QUEUE_LENGTH :
           led_command_queue.items[i] # LedCmd("LED_CMD_SET_COLOR", 0, 0, 255, 20)

\* the task is inside handle_mcp_connection
InConnection == net_pc \in {"recv", "scan", "xqueue", "send"}

\* C17: the socket is open exactly while the task is inside
\* handle_mcp_connection; the connection ends only from recv() (failure or
\* EOF) or from send() (failure), and the step that ends it closes the
\* socket and puts the task back in accept(), where the next client can be
\* accepted.
C17_ConnectionEndsInAccept ==
    /\ [](/\ InConnection <=> sock = "open"
          /\ (net_pc = "accept" /\ nconn < MaxConns) => ENABLED Accept)
    /\ [][ (InConnection /\ ~InConnection')
               => /\ net_pc \in {"recv", "send"}
                  /\ sock' = "closed"
                  /\ net_pc' = "accept" ]_vars

\* C17 witness: the second client is being served: a part of a response to
\* it has been sent
C17_Witness ==
    /\ nconn = 2
    /\ net_pc = "send"
    /\ sock = "open"
    /\ tx # <<>>

\* a led_control call that has arguments: the one request that enqueues
IsLedCallWithArguments(line) == IsLedCall(line) /\ LedArguments(line) # JAbsent

\* C18: the step that dispatches anything but a led_control call with
\* arguments leaves the queue as it is and hands it no command; and the
\* queue takes a command only on connect or disconnect and from the
\* xQueueSend of a led_control call.
C18_OnlyLedControlEnqueues ==
    [][ /\ (Dispatches /\ ~IsLedCallWithArguments(Last(dispatched')))
            => /\ led_command_queue' = led_command_queue
               /\ enqueued' = enqueued
               /\ led_cmd' = NoCmd
               /\ net_pc' # "xqueue"
        /\ (Len(enqueued') > Len(enqueued))
            => \/ Connects
               \/ Disconnects
               \/ /\ net_pc = "xqueue"
                  /\ IsLedCallWithArguments(request)
                  /\ enqueued' = Append(enqueued, led_cmd) ]_vars

\* C18 witness: compute_multiply is answered with a result while the green
\* of the connect is the only command the queue ever took
C18_Witness ==
    /\ net_pc = "send"
    /\ IsToolsCall(request)
    /\ Doc(request).params # JAbsent
    /\ Doc(request).params.name = JStr("compute_multiply")
    /\ Response.kind = "result"
    /\ enqueued = <<LedCmd("LED_CMD_SET_COLOR", 0, 255, 0, 20)>>

\* C19: the queue never holds more than QUEUE_LENGTH commands.
C19_QueueWithinCapacity == Len(led_command_queue.items) <= QUEUE_LENGTH

\* C19 witness: the queue is full while the LED task has applied some
\* commands and holds another, and handle_led_control waits with one more
C19_Witness ==
    /\ QueueFull
    /\ applied # <<>>
    /\ led_pc = "applying"
    /\ net_pc = "xqueue"

\* the scan stands at a zero-length line
AtEmptyLine ==
    /\ net_pc = "scan"
    /\ line_start < Len(pending_data)
    /\ pending_data[line_start + 1] = LF

\* C20: no dispatched line is empty; and a step taken where the scan stands
\* at a zero-length line dispatches nothing, leaves no response and sends
\* nothing, and leaves the scan at that line or at the start of the next.
C20_EmptyLinesAreSkipped ==
    /\ [](\A i \in 1..Len(dispatched) : dispatched[i] # <<>>)
    /\ [][ AtEmptyLine
               => /\ dispatched' = dispatched
                  /\ tx' = tx
                  /\ response_buffer' = <<>>
                  /\ response_len' = 0
                  /\ pending_data' = pending_data
                  /\ net_pc' = "scan"
                  /\ line_start' \in {line_start, line_start + 1} ]_vars

\* C20 witness: of the stream \n \n x \n the one line x was dispatched
C20_Witness ==
    /\ net_pc = "recv"
    /\ stream = <<LF, LF, X, LF>>
    /\ dispatched = << <<X>> >>

\* a tools/call of the tool `tool` with an id
IsCallOf(line, tool) ==
    /\ IsToolsCall(line)
    /\ Doc(line).params # JAbsent
    /\ Doc(line).params.name = JStr(tool)
\* a number of the model (twice the value) in hundredths, as "%.2f" prints it
Hundredths(h) == 50 * h

AdvertisedNames == {handle_tools_list.body.tools[i] :
                        i \in 1..Len(handle_tools_list.body.tools)}

\* C22: tools/list is answered with the four descriptors in the order
\* wifi_status, led_control, compute_add, compute_multiply; and a tools/call
\* with a string name is answered with "Tool not found" exactly when the
\* name is none of the advertised ones.
C22_CatalogMatchesRouting ==
    /\ (net_pc = "send" /\ HasStringMethod(request) /\ ~HasNoId(request)
            /\ Doc(request).method.s = "tools/list")
           => /\ Response.kind = "result"
              /\ Response.body.tools =
                     <<"wifi_status", "led_control", "compute_add", "compute_multiply">>
    /\ (net_pc = "send" /\ IsToolsCall(request) /\ Doc(request).params # JAbsent
            /\ Doc(request).params.name.t = "string")
           => (Response.body = ErrorBody(-32601, "Tool not found")
                   <=> Doc(request).params.name.s \notin AdvertisedNames)

\* C22 witness: tools/list sent with the params of a tool call is answered
\* with the catalog
C22_Witness ==
    /\ net_pc = "send"
    /\ HasStringMethod(request)
    /\ Doc(request).method.s = "tools/list"
    /\ Doc(request).params # JAbsent
    /\ Response.kind = "result"
    /\ Len(Response.body.tools) = 4

Terminated(s) ==
    \A i \in 1..Len(s) :
        /\ s[i] = LF \/ s[i].k = "response"
        /\ (s[i] = LF) => (i > 1 /\ s[i - 1] # LF)
        /\ (s[i] # LF /\ i < Len(s)) => s[i + 1] = LF

\* C24: every response enters the send loop with one newline after it, and
\* once the send loop has written it completely the transmitted text consists
\* of responses each followed by exactly one newline.
C24_ResponsesEndWithOneNewline ==
    /\ net_pc = "send" =>
           /\ Len(response_buffer) = 2
           /\ response_buffer[1] # LF
           /\ response_buffer[2] = LF
           /\ response_len = 2
    /\ Terminated(tx)
    /\ (sock = "open" /\ net_pc # "send") => (tx = <<>> \/ Last(tx) = LF)

\* C24 witness: the tools/list response has been written completely and the
\* connection waits for the next request
C24_Witness ==
    /\ sock = "open"
    /\ net_pc = "recv"
    /\ tx = <<R(Envelope(JNum(2), "result", [tools |-> ToolNames])), LF>>

\* no client is connected and the queue has drained: the server task is in
\* accept() or has ended, the queue is empty and the LED task waits for a
\* command
NoClient == net_pc \in {"accept", "dead"}
Drained == led_command_queue.items = <<>> /\ led_pc = "idle"

C26_EnqueuedIsEventuallyApplied ==
    /\ <>[](applied = enqueued)
    /\ (net_pc = "xqueue") ~> (net_pc = "send")

\* C26 witness: more commands than the queue holds were accepted, so a
\* handle_led_control has waited for room, and all of them have been applied
C26_Witness ==
    /\ Len(enqueued) > QUEUE_LENGTH
    /\ applied = enqueued
    /\ Drained

\* C27: whatever rmt_transmit and rmt_tx_wait_all_done return, the step that
\* ends the application of a command takes the LED task back to
\* xQueueReceive, counts the command as carried out and leaves the queue,
\* the server task, its connection and everything sent as they are; the LED
\* task, once idle, takes the next command whenever there is one, after a
\* failure as before it; and every response is the one handle_mcp_request
\* gives for its line, after a failure as before it.
C27_TransmitFailureIsAbsorbed ==
    /\ [][ (led_pc = "applying" /\ led_pc' # "applying") =>
              /\ led_pc' = "idle"
              /\ applied' = Append(applied, led_task_cmd)
              /\ UNCHANGED <<led_command_queue, enqueued, net_pc, connVars, histVars>>
         ]_vars
    /\ []((led_pc = "idle" /\ led_command_queue.items # <<>>) => ENABLED LedReceive)
    /\ [](\A h \in handled :
             \E out \in handle_mcp_request(h.line) :
                 /\ h.cmd = out.cmd
                 /\ h.response = IF out.len > 0 THEN R(out.response) ELSE NoResponse)

\* C27 witness: after a transmit failure the LED task has taken the next
\* command from the queue, and the server task is sending a response
C27_Witness ==
    /\ rmt_failed
    /\ led_pc = "applying"
    /\ applied # <<>>
    /\ net_pc = "send"

\* C28: the server task exists only if the queue and the LED task were
\* created: whenever it accepts or serves connections, or has ended, the
\* queue handle is non-NULL and the LED task is running; and app_main
\* starts nothing after it has returned.
C28_NoServerWithoutQueueAndLedTask ==
    /\ net_pc # "none" => (led_command_queue.created /\ led_pc # "none")
    /\ (booted /\ ~led_command_queue.created) => (led_pc = "none" /\ net_pc = "none")
    /\ (booted /\ led_pc = "none") => net_pc = "none"

\* C28 witness: the queue was created and the LED task was not: app_main has
\* returned and the server task does not exist
C28_Witness ==
    /\ booted
    /\ led_command_queue.created
    /\ led_pc = "none"
    /\ net_pc = "none"

\* the part of the response the send loop has written so far
Written == SubSeq(response_buffer, 1, response_len - to_write)

\* C29: in the send loop the symbols written so far are the first
\* response_len - to_write symbols of the response, and they are the end of
\* what the socket has taken; a send() that takes some symbols takes the
\* next ones, from the first unwritten one on; the loop is left only with
\* the whole response written, once and in order, or by a failing send(),
\* which ends the connection; a send() that takes nothing changes nothing,
\* and the task is in the same place of the loop however often that happens.
C29_SendLoopWritesEverySymbolOnce ==
    /\ [](net_pc = "send" =>
            /\ to_write \in 1..response_len
            /\ response_len = Len(response_buffer)
            /\ Len(tx) >= Len(Written)
            /\ SubSeq(tx, Len(tx) - Len(Written) + 1, Len(tx)) = Written)
    /\ [][ (net_pc = "send" /\ <<net_pc, to_write, tx>>' # <<net_pc, to_write, tx>>) =>
              \/ /\ net_pc' = "send"
                 /\ to_write' \in 1..(to_write - 1)
                 /\ response_buffer' = response_buffer
                 /\ response_len' = response_len
                 /\ tx' = tx \o SubSeq(response_buffer, response_len - to_write + 1,
                                       response_len - to_write')
              \/ /\ net_pc' = "scan"
                 /\ to_write' = 0
                 /\ tx' = tx \o SubSeq(response_buffer, response_len - to_write + 1,
                                       response_len)
              \/ /\ net_pc' = "accept"
                 /\ sock' = "closed"
                 /\ tx' = tx
         ]_vars

\* C29 witness: the response has been taken by a first send() and its
\* newline is left for the next one
C29_Witness ==
    /\ net_pc = "send"
    /\ response_len = 2
    /\ to_write = 1
    /\ tx # <<>>
    /\ Last(tx) = response_buffer[1]

\* a tools/call of led_control with arguments, whatever its id
IsLedControlMessage(line) ==
    /\ HasStringMethod(line)
    /\ Doc(line).method = JStr("tools/call")
    /\ Doc(line).params # JAbsent
    /\ Doc(line).params.name = JStr("led_control")
    /\ Doc(line).params.arguments # JAbsent

\* C30: the step that dispatches a message with a string method and an
\* absent or null id, a tools/call of led_control with arguments included,
\* hands no command to the queue: the queue and the record of what it
\* accepted stay as they are and handle_led_control is not entered, so a
\* request that waits in xQueueSend always has an id.
C30_NotificationsEnqueueNothing ==
    /\ [][ (Dispatches /\ HasStringMethod(Last(dispatched'))
                       /\ HasNoId(Last(dispatched')))
              => /\ led_command_queue' = led_command_queue
                 /\ enqueued' = enqueued
                 /\ led_cmd' = NoCmd
                 /\ net_pc' # "xqueue" ]_vars
    /\ [](net_pc = "xqueue" => (IsLedControlMessage(request) /\ ~HasNoId(request)))

\* C30 witness: a led_control call for red with a null id has been handled
\* on the first connection: the green of the connect is all the queue took
C30_Witness ==
    /\ net_pc = "recv"
    /\ Len(dispatched) = 1
    /\ IsLedControlMessage(dispatched[1])
    /\ Doc(dispatched[1]).id = JNull
    /\ Doc(dispatched[1]).params.arguments.color = JStr("red")
    /\ enqueued = <<LedCmd("LED_CMD_SET_COLOR", 0, 255, 0, 20)>>
    /\ led_cmd = NoCmd

\* handle_led_control waits in xQueueSend for room, and led_control_task
\* waits in xQueueReceive for a command
ProducerBlocked == net_pc = "xqueue" /\ ~ENABLED XQueueSend
ConsumerBlocked == led_pc = "idle" /\ ~ENABLED LedReceive

\* C31: the two tasks never wait for each other on the queue: while
\* handle_led_control waits for room the queue is full and the LED task
\* exists and either can take a command or is applying one, after which it
\* can; and while the LED task waits for a command the queue is empty and
\* handle_led_control is not waiting.
C31_NoDeadlockOnQueue ==
    /\ ProducerBlocked =>
           /\ Len(led_command_queue.items) = QUEUE_LENGTH
           /\ led_pc \in {"idle", "applying"}
           /\ led_pc = "idle" => ENABLED LedReceive
           /\ led_pc = "applying" => ENABLED LedApply(RmtOk)
    /\ ConsumerBlocked =>
           /\ led_command_queue.items = <<>>
           /\ ~ProducerBlocked
           /\ net_pc = "xqueue" => ENABLED XQueueSend
    /\ ~(ProducerBlocked /\ ConsumerBlocked)

\* C31 witness: handle_led_control waits on a full queue while the LED
\* task, which has applied nothing yet, is about to take the first command
C31_Witness ==
    /\ ProducerBlocked
    /\ led_pc = "idle"
    /\ applied = <<>>
    /\ Len(led_command_queue.items) = QUEUE_LENGTH

\* the symbols of s occur in t, in the order of s
RECURSIVE IsSubsequence(_, _)
IsSubsequence(s, t) ==
    IF s = <<>> THEN TRUE
    ELSE IF t = <<>> THEN FALSE
    ELSE IF Head(s) = Head(t) THEN IsSubsequence(Tail(s), Tail(t))
    ELSE IsSubsequence(s, Tail(t))

\* the lines of a sequence of lines, one after the other
RECURSIVE Flatten(_)
Flatten(lines) == IF lines = <<>> THEN <<>> ELSE Head(lines) \o Flatten(Tail(lines))

\* C32: the step that ends a connection dispatches nothing and sends
\* nothing, whatever pending_data holds after the last LF; the step that
\* accepts a connection starts it with an empty pending_data; and the lines
\* dispatched on a connection, followed by what is left in pending_data
\* while the task waits in recv(), are made of symbols received on this
\* connection, in their order, so nothing of an earlier connection is in
\* them.
C32_ResidualDiesWithConnection ==
    /\ [][ /\ Disconnects =>
                /\ dispatched' = dispatched
                /\ handled' = handled
                /\ tx' = tx
                /\ pending_data' = <<>>
           /\ Connects =>
                /\ pending_data' = <<>>
                /\ line_start' = 0
                /\ dispatched' = <<>>
                /\ stream' = <<>> ]_vars
    /\ [](InConnection => IsSubsequence(Flatten(dispatched), stream))
    /\ [](net_pc = "recv" =>
             IsSubsequence(Flatten(dispatched) \o CStr(pending_data), stream))

\* C32 witness: a connection on which x \n x was received has ended: the
\* line x was dispatched once and the x after the LF never
C32_Witness ==
    /\ net_pc = "accept"
    /\ sock = "closed"
    /\ stream = <<X, LF, X>>
    /\ dispatched = << <<X>> >>
    /\ pending_data = <<>>

\* pending_data is full and holds no LF
FullWithoutDelimiter ==
    /\ InConnection
    /\ strlen(pending_data) = MCP_BUFFER_SIZE - 1
    /\ \A i \in 1..Len(pending_data) : pending_data[i] # LF

\* C33: pending_data never holds more than MCP_BUFFER_SIZE - 1 symbols,
\* whatever the chunks are and wherever the LFs stand; and once it holds
\* that many and no LF, every step of the connection leaves it as it is and
\* dispatches nothing, so it stays that way until the connection ends.
C33_PendingDataWithinCapacity ==
    /\ [](/\ Len(pending_data) <= MCP_BUFFER_SIZE - 1
          /\ strlen(pending_data) = Len(pending_data)
          /\ line_start \in 0..Len(pending_data))
    /\ [][ (FullWithoutDelimiter /\ InConnection') =>
              /\ pending_data' = pending_data
              /\ dispatched' = dispatched
              /\ handled' = handled
              /\ tx' = tx
              /\ FullWithoutDelimiter' ]_vars

\* C33 witness: pending_data was filled without an LF, an LF was received
\* after that and dropped, and nothing has been dispatched
C33_Witness ==
    /\ net_pc = "recv"
    /\ FullWithoutDelimiter
    /\ Len(stream) > MCP_BUFFER_SIZE - 1
    /\ Last(stream) = LF
    /\ dispatched = <<>>

\* the commands in the queue and in the LED task's hand
AtActuator ==
    {led_command_queue.items[i] : i \in 1..Len(led_command_queue.items)}
        \cup {cmd \in {led_task_cmd} : cmd # NoCmd}

\* C34: for every command at the Actuator and each of its colors, the index
\* into gamma8 is (color * ((brightness * 255) / 100)) / 255 in integer
\* arithmetic, nothing being lost in the uint16_t, and is one of the 256
\* entries of the table; the bound 100 of the brightness is needed, as color
\* 255 with any brightness above 100 gives an index beyond the table; and
\* when the command applied last is Off, the pixel is all zero.
C34_GammaIndexInsideTable ==
    /\ Len(gamma8) = 256
    /\ \A cmd \in AtActuator :
          /\ cmd.brightness \in 0..100
          /\ \A color \in {cmd.r, cmd.g, cmd.b} :
                /\ gamma_index(color, cmd.brightness)
                       = (color * ((cmd.brightness * 255) \div 100)) \div 255
                /\ gamma_index(color, cmd.brightness) \in 0..255
                /\ gamma_index(color, cmd.brightness) + 1 \in DOMAIN gamma8
    /\ \A brightness \in 101..255 : gamma_index(255, brightness) > 255
    /\ (applied # <<>> /\ Last(applied).type = "LED_CMD_OFF")
           => led_strip_pixels = <<0, 0, 0>>

\* C34 witness: color 255 at brightness 100 has been applied: the last
\* entry of the table was read
C34_Witness ==
    /\ applied = <<LedCmd("LED_CMD_SET_COLOR", 255, 0, 0, 100)>>
    /\ led_strip_pixels = <<0, 255, 0>>
    /\ gamma_index(255, 100) = 255

=========================================================================
